---------------------------- MODULE Spec2Model ----------------------------
(***************************************************************************)
(* A state-machine model of the bible-discrepancies tools:                 *)
(*                                                                         *)
(*   extract_bible_verses.py  the sequential exporter: parse_reference,    *)
(*                            get_verse_text, advance_reference and the    *)
(*                            export loop of main;                         *)
(*   find_contradictions.py   calculate_contradiction_score and            *)
(*                            generate_short_contradiction_desc.           *)
(*                                                                         *)
(* The web site is the environment: every fetch draws its outcome          *)
(* nondeterministically.  A text is a sequence of one-character strings;   *)
(* a score is kept in tenths (15.0 is 150).                                *)
(***************************************************************************)
EXTENDS Integers, Sequences, FiniteSets, TLC

(***************************************************************************)
(* extract_bible_verses.py: program constants                              *)
(***************************************************************************)
BOOKS ==
  <<
    "Genesis", "Exodus", "Leviticus", "Numbers", "Deuteronomy", "Joshua",
    "Judges", "Ruth", "1 Samuel", "2 Samuel", "1 Kings", "2 Kings",
    "1 Chronicles", "2 Chronicles", "Ezra", "Nehemiah", "Esther", "Job",
    "Psalms", "Proverbs", "Ecclesiastes", "Song of Solomon", "Isaiah",
    "Jeremiah", "Lamentations", "Ezekiel", "Daniel", "Hosea", "Joel", "Amos",
    "Obadiah", "Jonah", "Micah", "Nahum", "Habakkuk", "Haggai", "Zechariah",
    "Malachi", "Matthew", "Mark", "Luke", "John", "Acts", "Romans",
    "1 Corinthians", "2 Corinthians", "Galatians", "Ephesians",
    "Philippians", "Colossians", "1 Thessalonians", "2 Thessalonians",
    "1 Timothy", "2 Timothy", "Titus", "Philemon", "Hebrews", "James",
    "1 Peter", "2 Peter", "1 John", "2 John", "3 John", "Jude", "Revelation"
  >>

VERSION_CODES ==
  {"KJV", "NIV", "NLT", "ESV", "CSB", "TLB", "DRA", "EXB", "AMP", "GNT", "CEB"}

\* advance_reference: max_attempts = 300
max_attempts == 300

\* advance_reference: "if test_verse > 176"
VerseCeiling == 176

\* advance_reference: "if test_chapter > 150"
ChapterCeiling == 150

\* The translation advance_reference probes with.
ProbeVersion == "NIV"

\* Python's None, as a reference: the empty tuple (a reference is <<book, chapter, verse>>).
None == <<>>

\* The messages main prints when the export loop stops early.
NoTextMsg == "No text in any translation. Stopping early."

EndOfBibleMsg == "Reached end of Bible."

(***************************************************************************)
(* Bounds of the model                                                     *)
(***************************************************************************)
\* The largest --count a run is started with.
MaxCount == 2

\* How far below a ceiling the start references of an advance_reference call reach.
EdgeSlack == 1

\* The largest number of variants drawn freely from TextPool for the scorer.
MaxVariants == 2

VARIABLES
  pc,               \* position of the running tool
  args,             \* the parsed command line: start, count, translations
  current_book, current_chapter, current_verse,
  rows, exported,   \* main: rows collected, verses exported
  row, has_text, ti,\* main: the row being built, its flag, index of trans
  printed,          \* main: the message printed when the loop stops early
  csv,              \* the output file: <<>> until written, then its lines
  report,           \* the final "Exported N verses, last verse: ..." line
  test_book, test_chapter, test_verse, attempts,  \* advance_reference locals
  probes,           \* the requests advance_reference has made, in order
  ret, retLine,     \* advance_reference: value returned, line returning it
  oracle,           \* the site: "any" (every probe may find text) or "corpus"
  resp,             \* outcome of the last fetch
  text,             \* what the last get_verse_text returned
  variants,         \* find_contradictions: translation -> text, in dict order
  contradiction_score, short_desc

vars ==
  <<pc, args, current_book, current_chapter, current_verse, rows, exported,
    row, has_text, ti, printed, csv, report, test_book, test_chapter,
    test_verse, attempts, probes, ret, retLine, oracle, resp, text,
    variants, contradiction_score, short_desc>>

exporterVars ==
  <<args, current_book, current_chapter, current_verse, rows, exported,
    row, has_text, ti, printed, csv, report>>

advanceVars ==
  <<test_book, test_chapter, test_verse, attempts, probes, ret, retLine>>

scorerVars == <<variants, contradiction_score, short_desc>>

(***************************************************************************)
(* The web site                                                            *)
(***************************************************************************)
\* What one session.get and the extraction after it can come to.
FetchOutcomes ==
  {"ok_text",      \* 200, a passage container with text left after cleaning
   "no_passage",   \* 200, no passage container or no text left in it
   "status",       \* a status other than 200
   "exception"}    \* session.get raises: a timeout after 15 s, no connection

FailedFetch == {"status", "exception"}

\* The references the site has text for when oracle = "corpus".
Corpus ==
  { <<"Genesis", 1, 1>>, <<"Genesis", 1, 2>>, <<"Genesis", 2, 1>>,
    <<"Jude", 150, 176>>, <<"Revelation", 1, 1>>,
    <<"Revelation", 150, 175>>, <<"Revelation", 150, 176>> }

\* The outcomes a fetch of reference ref can have.
Outcomes(ref) ==
  IF oracle = "any" \/ ref \in Corpus
    THEN FetchOutcomes
    ELSE FetchOutcomes \ {"ok_text"}

(***************************************************************************)
(* extract_bible_verses.py                                                 *)
(***************************************************************************)
InBooks(book) == \E i \in 1..Len(BOOKS) : BOOKS[i] = book

\* BOOKS.index(book), 0-based as in Python; the caller checks InBooks first.
BooksIndex(book) == CHOOSE i \in 0..(Len(BOOKS) - 1) : BOOKS[i + 1] = book

\* parse_reference on a start string s, given as what the regular expression
\* makes of it: whether it matches, and the groups.
parse_reference(s) ==
  IF ~s.matches
    THEN [error |-> "Invalid reference format", ref |-> None]
    ELSE IF ~InBooks(s.book)
      THEN [error |-> "Unknown book", ref |-> None]
      ELSE [error |-> "", ref |-> <<s.book, s.chapter, s.verse>>]

\* get_verse_text without its try/except: a failed request propagates.
get_verse_text_noexcept(version, outcome) ==
  IF version \notin VERSION_CODES
    THEN [raised |-> FALSE, text |-> ""]
    ELSE IF outcome = "exception"
      THEN [raised |-> TRUE, text |-> ""]
      ELSE [raised |-> FALSE,
            text |-> IF outcome = "ok_text" THEN "verse text" ELSE ""]

\* get_verse_text: the text of the verse, "" when the version is unknown, the
\* status is not 200, no passage is found, or the request raises.
get_verse_text(version, outcome) ==
  IF version \notin VERSION_CODES
    THEN [raised |-> FALSE, text |-> ""]
    ELSE [raised |-> FALSE,
          text |-> IF outcome = "ok_text" THEN "verse text" ELSE ""]

\* advance_reference, line 89, stepping two verses on.
FirstCandidateVerse_skip(verse) == verse + 2

\* advance_reference, line 89, with verse + 1 forgotten.
FirstCandidateVerse_same(verse) == verse

\* advance_reference, line 89: test_verse = verse + 1
FirstCandidateVerse(verse) == verse + 1

\* The loop condition with <= for <.
AttemptsLeft_offbyone(n) == n <= max_attempts

\* advance_reference, line 96: while attempts < max_attempts
AttemptsLeft(n) == n < max_attempts

\* Lines 102-115 with the chapter kept when the verse wraps.
StepAfterMiss_nochapter(book, chapter, verse) ==
  IF verse + 1 > VerseCeiling
    THEN [book |-> book, chapter |-> chapter, verse |-> 1, line |-> 0]
    ELSE [book |-> book, chapter |-> chapter, verse |-> verse + 1, line |-> 0]

\* advance_reference, lines 102-115: the locals after a probe that found no
\* text, and the line that returns None (0: the loop goes on).
StepAfterMiss(book, chapter, verse) ==
  IF verse + 1 > VerseCeiling
    THEN IF chapter + 1 > ChapterCeiling
      THEN IF ~InBooks(book)
        THEN [book |-> book, chapter |-> chapter + 1, verse |-> 1, line |-> 115]
        ELSE IF BooksIndex(book) + 1 < Len(BOOKS)
          THEN [book |-> BOOKS[(BooksIndex(book) + 1) + 1], chapter |-> 1,
                verse |-> 1, line |-> 0]
          ELSE [book |-> book, chapter |-> chapter + 1, verse |-> 1, line |-> 113]
      ELSE [book |-> book, chapter |-> chapter + 1, verse |-> 1, line |-> 0]
    ELSE [book |-> book, chapter |-> chapter, verse |-> verse + 1, line |-> 0]

\* advance_reference, lines 89-94.
AdvEntry ==
  /\ pc = "adv_entry"
  /\ test_verse' = FirstCandidateVerse(current_verse)
  /\ test_chapter' = current_chapter
  /\ test_book' = current_book
  /\ attempts' = 0
  /\ probes' = <<>>
  /\ ret' = None
  /\ retLine' = 0
  /\ pc' = "adv_while"
  /\ UNCHANGED <<exporterVars, scorerVars, oracle, resp, text>>

\* advance_reference, lines 96-115: one pass of the loop body.
AdvIter ==
  /\ pc = "adv_while"
  /\ AttemptsLeft(attempts)
  /\ attempts' = attempts + 1
  /\ \E o \in Outcomes(<<test_book, test_chapter, test_verse>>) :
       LET r == get_verse_text(ProbeVersion, o)
           n == StepAfterMiss(test_book, test_chapter, test_verse)
       IN  /\ resp' = o
           /\ IF r.raised
                THEN /\ pc' = "crashed"
                     /\ UNCHANGED <<text, probes, ret, retLine, test_book,
                                    test_chapter, test_verse>>
                ELSE /\ text' = r.text
                     /\ probes' = Append(probes,
                          [ref |-> <<test_book, test_chapter, test_verse>>,
                           found |-> r.text # ""])
                     /\ IF r.text # ""
                          THEN /\ ret' = <<test_book, test_chapter, test_verse>>
                               /\ retLine' = 100
                               /\ pc' = "adv_ret"
                               /\ UNCHANGED <<test_book, test_chapter, test_verse>>
                          ELSE /\ test_book' = n.book
                               /\ test_chapter' = n.chapter
                               /\ test_verse' = n.verse
                               /\ retLine' = n.line
                               /\ ret' = None
                               /\ pc' = IF n.line = 0 THEN "adv_while" ELSE "adv_ret"
  /\ UNCHANGED <<exporterVars, scorerVars, oracle>>

\* advance_reference, line 116: the loop ran out of attempts.
AdvExhaust ==
  /\ pc = "adv_while"
  /\ ~AttemptsLeft(attempts)
  /\ ret' = None
  /\ retLine' = 116
  /\ pc' = "adv_ret"
  /\ UNCHANGED <<exporterVars, scorerVars, oracle, resp, text, test_book,
                 test_chapter, test_verse, attempts, probes>>

\* The export loop's condition with <= for <.
LoopGuard_offbyone(n, count) == n <= count

\* main, line 136: while exported < args.count
LoopGuard(n, count) == n < count

\* main, lines 165-172: the lines written for rows rs, the header first.
CsvLines(translations, rs) ==
  <<(<<"BOOK CHAPTER:VERSE">> \o translations)>>
    \o [i \in 1..Len(rs) |-> <<rs[i].ref>> \o rs[i].text]

\* main, lines 124-133: the start reference is parsed; a ValueError ends the
\* run before anything is fetched or written.
ParseArgs ==
  /\ pc = "start"
  /\ LET p == parse_reference(args.start)
     IN  IF p.error # ""
           THEN /\ pc' = "error"
                /\ printed' = p.error
                /\ UNCHANGED <<current_book, current_chapter, current_verse>>
           ELSE /\ pc' = "loop"
                /\ current_book' = p.ref[1]
                /\ current_chapter' = p.ref[2]
                /\ current_verse' = p.ref[3]
                /\ UNCHANGED printed
  /\ rows' = <<>>
  /\ exported' = 0
  /\ UNCHANGED <<args, row, has_text, ti, csv, report, advanceVars,
                 scorerVars, oracle, resp, text>>

\* main, lines 136-140: the loop test and the start of a row.
LoopHead ==
  /\ pc = "loop"
  /\ IF LoopGuard(exported, args.count)
       THEN /\ row' = [ref |-> <<current_book, current_chapter, current_verse>>,
                       text |-> <<>>]
            /\ has_text' = FALSE
            /\ ti' = 1
            /\ pc' = "fetch"
       ELSE /\ pc' = "write"
            /\ UNCHANGED <<row, has_text, ti>>
  /\ UNCHANGED <<args, current_book, current_chapter, current_verse, rows,
                 exported, printed, csv, report, advanceVars, scorerVars,
                 oracle, resp, text>>

\* main, lines 141-146: one translation of the current verse is fetched.
\* An unknown version code makes no request.
FetchTrans ==
  /\ pc = "fetch"
  /\ ti <= Len(args.translations)
  /\ \E o \in (IF args.translations[ti] \in VERSION_CODES
                 THEN Outcomes(<<current_book, current_chapter, current_verse>>)
                 ELSE {"no_request"}) :
       LET r == get_verse_text(args.translations[ti], o)
       IN  /\ resp' = o
           /\ IF r.raised
                THEN /\ pc' = "crashed"
                     /\ UNCHANGED <<text, row, has_text, ti>>
                ELSE /\ text' = r.text
                     /\ row' = [row EXCEPT !.text = Append(@, r.text)]
                     /\ has_text' = (has_text \/ r.text # "")
                     /\ ti' = ti + 1
                     /\ pc' = "fetch"
  /\ UNCHANGED <<args, current_book, current_chapter, current_verse, rows,
                 exported, printed, csv, report, advanceVars, scorerVars,
                 oracle>>

\* main, lines 148-155: a verse with no text stops the loop; otherwise the row
\* is kept and advance_reference is called.
EndOfRow ==
  /\ pc = "fetch"
  /\ ti > Len(args.translations)
  /\ IF ~has_text
       THEN /\ printed' = NoTextMsg
            /\ pc' = "write"
            /\ UNCHANGED <<rows, exported>>
       ELSE /\ rows' = Append(rows, row)
            /\ exported' = exported + 1
            /\ pc' = "adv_entry"
            /\ UNCHANGED printed
  /\ UNCHANGED <<args, current_book, current_chapter, current_verse, row,
                 has_text, ti, csv, report, advanceVars, scorerVars, oracle,
                 resp, text>>

\* main, lines 155-161: None from advance_reference stops the loop.
AfterAdvance ==
  /\ pc = "adv_ret"
  /\ IF ret = None
       THEN /\ printed' = EndOfBibleMsg
            /\ pc' = "write"
            /\ UNCHANGED <<current_book, current_chapter, current_verse>>
       ELSE /\ current_book' = ret[1]
            /\ current_chapter' = ret[2]
            /\ current_verse' = ret[3]
            /\ pc' = "loop"
            /\ UNCHANGED printed
  /\ UNCHANGED <<args, rows, exported, row, has_text, ti, csv, report,
                 advanceVars, scorerVars, oracle, resp, text>>

\* main, lines 163-175: the file is written and the count reported.
WriteCSV ==
  /\ pc = "write"
  /\ csv' = CsvLines(args.translations, rows)
  /\ report' = [exported |-> exported,
                last_ref |-> IF rows # <<>>
                               THEN rows[Len(rows)].ref
                               ELSE <<args.start.book, args.start.chapter,
                                      args.start.verse>>]
  /\ pc' = "done"
  /\ UNCHANGED <<args, current_book, current_chapter, current_verse, rows,
                 exported, row, has_text, ti, printed, advanceVars,
                 scorerVars, oracle, resp, text>>

(***************************************************************************)
(* Inputs of the exporter                                                  *)
(***************************************************************************)
\* --start strings, as the regular expression of parse_reference reads them.
StartStrings ==
  { [matches |-> TRUE, book |-> "Genesis", chapter |-> 1, verse |-> 1],
    [matches |-> TRUE, book |-> "Genesis", chapter |-> 3, verse |-> 1],
    [matches |-> TRUE, book |-> "Jude", chapter |-> 150, verse |-> 176],
    [matches |-> TRUE, book |-> "Revelation", chapter |-> 150, verse |-> 175],
    [matches |-> TRUE, book |-> "Zephaniah", chapter |-> 1, verse |-> 1],
    [matches |-> FALSE, book |-> "", chapter |-> 0, verse |-> 0] }

\* --translations lists; the first is the default.
TranslationLists ==
  { <<"AKJV", "NIV", "NRSVCE">>, <<"KJV", "NIV">>, <<"AKJV">> }

\* --count values: argparse's int takes a negative number too.
Counts == (-1)..MaxCount

\* The references advance_reference is called with when run on its own.
AdvBooks == {"Genesis", "Jude", "Revelation"}

AdvChapters == {1} \cup ((ChapterCeiling - EdgeSlack)..(ChapterCeiling + 1))

AdvVerses == {1} \cup ((VerseCeiling - EdgeSlack)..(VerseCeiling + 1))

NoArgs ==
  [start |-> [matches |-> FALSE, book |-> "", chapter |-> 0, verse |-> 0],
   count |-> 0, translations |-> <<>>]

NoRow == [ref |-> None, text |-> <<>>]

NoReport == [exported |-> 0, last_ref |-> None]

ExporterIdle ==
  /\ args = NoArgs
  /\ current_book = ""
  /\ current_chapter = 0
  /\ current_verse = 0
  /\ rows = <<>>
  /\ exported = 0
  /\ row = NoRow
  /\ has_text = FALSE
  /\ ti = 0
  /\ printed = ""
  /\ csv = <<>>
  /\ report = NoReport

AdvanceIdle ==
  /\ test_book = ""
  /\ test_chapter = 0
  /\ test_verse = 0
  /\ attempts = 0
  /\ probes = <<>>
  /\ ret = None
  /\ retLine = 0

ScorerIdle ==
  /\ variants = <<>>
  /\ contradiction_score = 0
  /\ short_desc = ""

\* extract_bible_verses.py started from the command line.
Init ==
  /\ pc = "start"
  /\ args \in [start : StartStrings, count : Counts,
               translations : TranslationLists]
  /\ current_book = ""
  /\ current_chapter = 0
  /\ current_verse = 0
  /\ rows = <<>>
  /\ exported = 0
  /\ row = NoRow
  /\ has_text = FALSE
  /\ ti = 0
  /\ printed = ""
  /\ csv = <<>>
  /\ report = NoReport
  /\ AdvanceIdle
  /\ ScorerIdle
  /\ oracle = "corpus"
  /\ resp = ""
  /\ text = ""

Next ==
  \/ ParseArgs
  \/ LoopHead
  \/ FetchTrans
  \/ EndOfRow
  \/ AdvEntry
  \/ AdvIter
  \/ AdvExhaust
  \/ AfterAdvance
  \/ WriteCSV

Spec == Init /\ [][Next]_vars

\* One thread runs the tool and every step completes: a fetch returns or
\* times out after 15 s.
FairSpec == Spec /\ WF_vars(Next)

\* advance_reference called on its own, with any reference of a known book and
\* a site that may answer any probe either way.
InitAdvance ==
  /\ pc = "adv_entry"
  /\ args = NoArgs
  /\ current_book \in AdvBooks
  /\ current_chapter \in AdvChapters
  /\ current_verse \in AdvVerses
  /\ rows = <<>>
  /\ exported = 0
  /\ row = NoRow
  /\ has_text = FALSE
  /\ ti = 0
  /\ printed = ""
  /\ csv = <<>>
  /\ report = NoReport
  /\ AdvanceIdle
  /\ ScorerIdle
  /\ oracle = "any"
  /\ resp = ""
  /\ text = ""

NextAdvance == AdvEntry \/ AdvIter \/ AdvExhaust

SpecAdvance == InitAdvance /\ [][NextAdvance]_vars

FairSpecAdvance == SpecAdvance /\ WF_vars(NextAdvance)

(***************************************************************************)
(* find_contradictions.py                                                  *)
(***************************************************************************)
LowerLetters ==
  <<"a", "b", "c", "d", "e", "f", "g", "h", "i", "j", "k", "l", "m", "n",
    "o", "p", "q", "r", "s", "t", "u", "v", "w", "x", "y", "z">>

\* str.lower on the capital letters.
LowerMap ==
  ("A" :> "a") @@ ("B" :> "b") @@ ("C" :> "c") @@ ("D" :> "d") @@
  ("E" :> "e") @@ ("F" :> "f") @@ ("G" :> "g") @@ ("H" :> "h") @@
  ("I" :> "i") @@ ("J" :> "j") @@ ("K" :> "k") @@ ("L" :> "l") @@
  ("M" :> "m") @@ ("N" :> "n") @@ ("O" :> "o") @@ ("P" :> "p") @@
  ("Q" :> "q") @@ ("R" :> "r") @@ ("S" :> "s") @@ ("T" :> "t") @@
  ("U" :> "u") @@ ("V" :> "v") @@ ("W" :> "w") @@ ("X" :> "x") @@
  ("Y" :> "y") @@ ("Z" :> "z")

\* str.lower on one character.
LowerChar(c) == IF c \in DOMAIN LowerMap THEN LowerMap[c] ELSE c

\* str.lower
Lower(t) == [k \in 1..Len(t) |-> LowerChar(t[k])]

\* The characters str.split() splits on; the texts here hold only the space.
IsSpace(c) == c = " "

\* str.split(): where the words of t start and where they end, a word being
\* a maximal run of non-space characters.
WordStarts(t) ==
  {k \in 1..Len(t) : ~IsSpace(t[k]) /\ (k = 1 \/ IsSpace(t[k - 1]))}

WordEnds(t) ==
  {k \in 1..Len(t) : ~IsSpace(t[k]) /\ (k = Len(t) \/ IsSpace(t[k + 1]))}

\* set(text.lower().split()): each word runs from its start to the first end
\* at or after it.
WordSet(t) ==
  LET low == Lower(t)
      ends == WordEnds(low)
  IN  {SubSeq(low, k, CHOOSE e \in ends : e >= k /\ \A f \in ends : f >= k => e <= f) :
         k \in WordStarts(low)}

\* "needle in hay" for strings.
Contains(hay, needle) ==
  \E k \in 1..(Len(hay) - Len(needle) + 1) :
    SubSeq(hay, k, k + Len(needle) - 1) = needle

\* The keyword "begotten".
kw_begotten ==
  <<"b", "e", "g", "o", "t", "t", "e", "n">>

\* The keyword "only".
kw_only ==
  <<"o", "n", "l", "y">>

\* The keyword "unique".
kw_unique ==
  <<"u", "n", "i", "q", "u", "e">>

\* The keyword "perish".
kw_perish ==
  <<"p", "e", "r", "i", "s", "h">>

\* The keyword "not perish".
kw_not_perish ==
  <<"n", "o", "t", " ", "p", "e", "r", "i", "s", "h">>

\* The keyword "god".
kw_god ==
  <<"g", "o", "d">>

\* The keyword "he".
kw_he ==
  <<"h", "e">>

\* The keyword "heaven".
kw_heaven ==
  <<"h", "e", "a", "v", "e", "n">>

\* The keyword "heavens".
kw_heavens ==
  <<"h", "e", "a", "v", "e", "n", "s">>

\* The difference of one side only, for the symmetric difference.
PairDiff_onesided(a, b) == Cardinality(WordSet(a) \ WordSet(b))

\* calculate_contradiction_score, lines 73-75: the size of the symmetric
\* difference of the two word sets.
PairDiff(a, b) ==
  Cardinality((WordSet(a) \ WordSet(b)) \cup (WordSet(b) \ WordSet(a)))

\* calculate_contradiction_score, lines 71-77: the two loops from (i, j) on,
\* 1-based; the result is total_diff and count.
RECURSIVE PairLoop(_, _, _, _, _)
PairLoop(texts, i, j, total_diff, count) ==
  IF i > Len(texts)
    THEN [total_diff |-> total_diff, count |-> count]
    ELSE IF j > Len(texts)
      THEN PairLoop(texts, i + 1, i + 2, total_diff, count)
      ELSE PairLoop(texts, i, j + 1,
                    total_diff + PairDiff(texts[i], texts[j]), count + 1)

\* round(num / den, 0) for num >= 0, den > 0: to the nearest, a tie to the even.
RoundHalfEven(num, den) ==
  LET q == num \div den
      r == num % den
  IN  IF 2 * r < den THEN q
      ELSE IF 2 * r > den THEN q + 1
      ELSE IF q % 2 = 0 THEN q ELSE q + 1

\* list(variants.values())
Values(vs) == [k \in 1..Len(vs) |-> vs[k].text]

\* calculate_contradiction_score without min(100.0, ...).
calculate_contradiction_score_noclamp(vs) ==
  IF Len(vs) < 2
    THEN 0
    ELSE LET r == PairLoop(Values(vs), 1, 2, 0, 0)
         IN  IF r.count = 0 THEN 0 ELSE RoundHalfEven(50 * r.total_diff, r.count)

\* calculate_contradiction_score, in tenths: round(min(100.0, avg_diff * 5), 1)
\* with avg_diff = total_diff / count.
calculate_contradiction_score(vs) ==
  IF Len(vs) < 2
    THEN 0
    ELSE LET r == PairLoop(Values(vs), 1, 2, 0, 0)
         IN  IF r.count = 0
               THEN 0
               ELSE IF 5 * r.total_diff >= 100 * r.count
                 THEN 1000
                 ELSE RoundHalfEven(50 * r.total_diff, r.count)

\* generate_short_contradiction_desc with the score bands tried before the
\* keyword rules.
generate_short_contradiction_desc_bandfirst(vs, score) ==
  IF Len(vs) < 2
    THEN "No significant differences detected."
    ELSE IF score < 200 THEN "Minor wording variation only."
    ELSE IF score < 500 THEN "Noticeable phrasing differences."
    ELSE "Significant textual variation in meaning."

\* generate_short_contradiction_desc; score is in tenths.
generate_short_contradiction_desc(vs, score) ==
  IF Len(vs) < 2
    THEN "No significant differences detected."
    ELSE LET txt1 == Lower(vs[1].text)
             txt2 == Lower(vs[2].text)
         IN  IF Contains(txt1, kw_begotten)
                  /\ (Contains(txt2, kw_only) \/ Contains(txt2, kw_unique))
               THEN "Only begotten Son vs one and only Son."
             ELSE IF Contains(txt1, kw_perish) /\ Contains(txt2, kw_not_perish)
               THEN "Eternal life vs perish vs not perish."
             ELSE IF Contains(txt1, kw_god) /\ Contains(txt2, kw_he)
               THEN "God manifest vs He who was manifest."
             ELSE IF Contains(txt1, kw_heaven) /\ Contains(txt2, kw_heavens)
               THEN "Heaven vs heavens wording difference."
             ELSE IF score < 200 THEN "Minor wording variation only."
             ELSE IF score < 500 THEN "Noticeable phrasing differences."
             ELSE "Significant textual variation in meaning."

\* main, line 153: the score of the translations found.
ScoreStep ==
  /\ pc = "score"
  /\ contradiction_score' = calculate_contradiction_score(variants)
  /\ pc' = "describe"
  /\ UNCHANGED <<exporterVars, advanceVars, variants, short_desc, oracle,
                 resp, text>>

\* main, line 154: the description, from the translations and the score.
DescStep ==
  /\ pc = "describe"
  /\ short_desc' = generate_short_contradiction_desc(variants, contradiction_score)
  /\ pc' = "described"
  /\ UNCHANGED <<exporterVars, advanceVars, variants, contradiction_score,
                 oracle, resp, text>>

(***************************************************************************)
(* Inputs of the scorer                                                    *)
(***************************************************************************)
\* The first variant of the spec's scenario.
ScenarioKJV ==
  <<"f", "o", "r", " ", "g", "o", "d", " ", "s", "o", " ", "l", "o", "v",
    "e", "d", " ", "t", "h", "e", " ", "w", "o", "r", "l", "d">>

\* The second variant of the spec's scenario.
ScenarioNIV ==
  <<"f", "o", "r", " ", "g", "o", "d", " ", "s", "o", " ", "l", "o", "v",
    "e", "d", " ", "t", "h", "e", " ", "w", "o", "r", "l", "d", " ", "t",
    "h", "a", "t", " ", "h", "e", " ", "g", "a", "v", "e">>

\* A variant the first keyword rule reads.
BegottenKJV ==
  <<"H", "i", "s", " ", "o", "n", "l", "y", " ", "b", "e", "g", "o", "t",
    "t", "e", "n", " ", "S", "o", "n">>

\* Its counterpart in another translation.
BegottenNIV ==
  <<"h", "i", "s", " ", "o", "n", "e", " ", "a", "n", "d", " ", "o", "n",
    "l", "y", " ", "S", "o", "n">>

\* The one-letter words a, b, c, ... up to the n-th letter, joined by spaces.
RECURSIVE LetterWords(_)
LetterWords(n) ==
  IF n = 0 THEN <<>>
  ELSE IF n = 1 THEN <<LowerLetters[1]>>
  ELSE LetterWords(n - 1) \o <<" ", LowerLetters[n]>>

\* A text of 21 distinct words: against the empty text its score passes 100.
LongText == LetterWords(21)

\* The texts the variants are drawn from: the empty text, texts that differ
\* in case, in repeated words, in spacing and in word order, one word that
\* joins two others, the spec's scenario, a pair the first keyword rule reads,
\* and the long text.
TextPool ==
  { <<>>,
    <<"a">>,
    <<"A">>,
    <<"a", " ", "a">>,
    <<" ", "a", " ", " ", "b", " ">>,
    <<"b", " ", "a">>,
    <<"a", "b">>,
    ScenarioKJV, ScenarioNIV, BegottenKJV, BegottenNIV, LongText }

\* Lists of three texts given as they are, whose three pairs differ in size.
TripleTexts ==
  { << <<>>, <<"a">>, <<"a", " ", "a">> >>,
    << <<"a">>, <<>>, <<"b", " ", "a">> >>,
    << <<"A">>, <<"a", "b">>, <<" ", "a", " ", " ", "b", " ">> >>,
    <<ScenarioKJV, ScenarioNIV, BegottenKJV>>,
    <<LongText, ScenarioKJV, ScenarioNIV>>,
    <<LongText, <<>>, <<"a">> >> }

\* The keys of the mapping, in the order the page lists them.
Versions == <<"KJV", "NIV", "ESV", "NLT", "CSB", "NET">>

\* The mapping with texts ts, in dict order.
VariantMap(ts) == [k \in 1..Len(ts) |-> [version |-> Versions[k], text |-> ts[k]]]

InitScore ==
  /\ pc = "score"
  /\ ExporterIdle
  /\ AdvanceIdle
  /\ \/ \E n \in 0..MaxVariants :
          \E ts \in [1..n -> TextPool] : variants = VariantMap(ts)
     \/ \E ts \in TripleTexts : variants = VariantMap(ts)
  /\ contradiction_score = 0
  /\ short_desc = ""
  /\ oracle = "any"
  /\ resp = ""
  /\ text = ""

NextScore == ScoreStep \/ DescStep

SpecScore == InitScore /\ [][NextScore]_vars

(***************************************************************************)
(* Properties                                                              *)
(***************************************************************************)
\* Position of a book in the canonical order, from 1.
BookPos(book) == CHOOSE k \in 1..Len(BOOKS) : BOOKS[k] = book

LastBook == BOOKS[Len(BOOKS)]

\* The candidate after ref in traversal order: the next verse up to the verse
\* ceiling, then verse 1 of the next chapter up to the chapter ceiling, then
\* chapter 1, verse 1 of the next book; None after the last book.
TraversalNext(ref) ==
  IF ref[3] < VerseCeiling THEN <<ref[1], ref[2], ref[3] + 1>>
  ELSE IF ref[2] < ChapterCeiling THEN <<ref[1], ref[2] + 1, 1>>
  ELSE IF ref[1] # LastBook THEN <<BOOKS[BookPos(ref[1]) + 1], 1, 1>>
  ELSE None

\* The lexicographic order on (book index, chapter, verse).
RefLess(r, s) ==
  \/ BookPos(r[1]) < BookPos(s[1])
  \/ /\ r[1] = s[1]
     /\ \/ r[2] < s[2]
        \/ r[2] = s[2] /\ r[3] < s[3]

TestRef == <<test_book, test_chapter, test_verse>>

CurrentRef == <<current_book, current_chapter, current_verse>>

\* The three ways advance_reference ends.
Found == pc = "adv_ret" /\ retLine = 100 /\ ret # None

EndOfCorpus == pc = "adv_ret" /\ retLine = 113 /\ ret = None

Exhausted == pc = "adv_ret" /\ retLine = 116 /\ ret = None

\* C1: advance_reference makes at most 300 probes whatever the site answers,
\* and every call ends, with a next reference, at the end of the corpus, or
\* with its budget exhausted.
C1_AdvanceTerminates ==
  /\ [](/\ attempts <= max_attempts
        /\ Len(probes) <= max_attempts
        /\ pc = "adv_ret" => (Found \/ EndOfCorpus \/ Exhausted))
  /\ <>(pc = "adv_ret")

\* C1 witness: a call that used all 300 probes, none finding text.
C1_Witness ==
  /\ Exhausted
  /\ Len(probes) = max_attempts
  /\ \A k \in 1..Len(probes) : ~probes[k].found

\* C2: the first probe is (book, chapter, verse + 1), each later probe is the
\* candidate after the one before it in traversal order, only the last probe
\* can have found text, and a returned reference is that last probe's.
C2_FirstCandidateWithText ==
  /\ Len(probes) >= 1 =>
       probes[1].ref = <<current_book, current_chapter, current_verse + 1>>
  /\ \A k \in 1..(Len(probes) - 1) :
       /\ ~probes[k].found
       /\ probes[k + 1].ref = TraversalNext(probes[k].ref)
  /\ (pc = "adv_ret" /\ ret # None) =>
       /\ Len(probes) >= 1
       /\ probes[Len(probes)].found
       /\ probes[Len(probes)].ref = ret
  /\ (pc = "adv_ret" /\ ret = None) =>
       \A k \in 1..Len(probes) : ~probes[k].found

\* C2 witness: a reference returned after probes that found nothing.
C2_Witness ==
  /\ Found
  /\ Len(probes) >= 3
  /\ ret # <<current_book, current_chapter, current_verse + 1>>

\* What follows the k-th probe: the next probe, or the candidate the loop is
\* about to probe; None when the call has returned or no attempt is left.
FollowedBy(k) ==
  IF k < Len(probes) THEN probes[k + 1].ref
  ELSE IF pc = "adv_while" /\ attempts < max_attempts THEN TestRef
  ELSE None

\* C3: a probe of verse 176 that finds no text is followed by verse 1 of the
\* next chapter of the book; in chapter 150 it is followed by chapter 1,
\* verse 1 of the next book; and in chapter 150 of Revelation the call ends
\* there with the end-of-corpus outcome and no further probe.
C3_BoundaryWrap ==
  \A k \in 1..Len(probes) :
    (~probes[k].found /\ probes[k].ref[3] = VerseCeiling) =>
      LET b == probes[k].ref[1]
          c == probes[k].ref[2]
      IN  /\ (c < ChapterCeiling /\ FollowedBy(k) # None) =>
                FollowedBy(k) = <<b, c + 1, 1>>
          /\ (c = ChapterCeiling /\ b # LastBook /\ FollowedBy(k) # None) =>
                FollowedBy(k) = <<BOOKS[BookPos(b) + 1], 1, 1>>
          /\ (c = ChapterCeiling /\ b = LastBook) =>
                (k = Len(probes) /\ EndOfCorpus)
          /\ (c <= ChapterCeiling /\ FollowedBy(k) = None /\ pc = "adv_ret") =>
                IF c = ChapterCeiling /\ b = LastBook THEN EndOfCorpus ELSE Exhausted

\* C3 witness: one call that wrapped a chapter and then a book.
C3_Witness ==
  /\ \E k \in 1..(Len(probes) - 1) :
       /\ probes[k].ref = <<"Jude", ChapterCeiling - 1, VerseCeiling>>
       /\ probes[k + 1].ref = <<"Jude", ChapterCeiling, 1>>
  /\ \E k \in 1..(Len(probes) - 1) :
       /\ probes[k].ref = <<"Jude", ChapterCeiling, VerseCeiling>>
       /\ probes[k + 1].ref = <<"Revelation", 1, 1>>

\* The end of the corpus is reached: Revelation 150:176 probed, then None.
C3_EndReached ==
  /\ EndOfCorpus
  /\ Len(probes) >= 2
  /\ probes[Len(probes)].ref = <<LastBook, ChapterCeiling, VerseCeiling>>

\* C4: a call that ran out of attempts is reported to the user otherwise than
\* one that passed the last book, which the loop reports as EndOfBibleMsg.
C4_ExhaustedReportedApart ==
  (pc \in {"write", "done"} /\ retLine = 116) => printed # EndOfBibleMsg

\* C5: no fetch raises; a failed fetch gives "", and the traversal goes on to
\* the next candidate (or ends at the end of the corpus) as after an absent
\* verse, and the export loop goes on to the next translation.
C5_FailedFetchIsNoText ==
  /\ [](/\ pc # "crashed"
        /\ resp \in FailedFetch => text = "")
  /\ [][(pc = "adv_while" /\ attempts' = attempts + 1 /\ resp' \in FailedFetch) =>
          /\ probes' = Append(probes, [ref |-> TestRef, found |-> FALSE])
          /\ \/ /\ pc' = "adv_while"
                /\ <<test_book', test_chapter', test_verse'>> = TraversalNext(TestRef)
             \/ /\ pc' = "adv_ret"
                /\ retLine' = 113
                /\ TraversalNext(TestRef) = None]_vars
  /\ [][(pc = "fetch" /\ ti' = ti + 1 /\ resp' \in FailedFetch) =>
          /\ pc' = "fetch"
          /\ row'.text = Append(row.text, "")
          /\ rows' = rows]_vars

\* C5 witness: the traversal going on after a probe whose request raised.
C5_Witness ==
  /\ pc = "adv_while"
  /\ attempts >= 2
  /\ resp = "exception"
  /\ exported >= 1

\* What C6 says of a finished run, but for the bound on the count: the file
\* holds the header and one line per collected row, in order, and the count
\* reported is the number of those lines.
C6_Written ==
  /\ Len(csv) = Len(rows) + 1
  /\ \A k \in 1..Len(rows) :
       /\ csv[k + 1][1] = rows[k].ref
       /\ Len(csv[k + 1]) = Len(args.translations) + 1
       /\ \A t \in 1..Len(args.translations) : csv[k + 1][t + 1] = rows[k].text[t]
       /\ \E t \in 1..Len(args.translations) : rows[k].text[t] # ""
  /\ report.exported = Len(rows)
  /\ exported = Len(rows)

\* C6 as amended: a run with a valid start reference always writes the file,
\* with exactly the rows collected; rows are added one at a time, each a verse
\* with text; the reported count is the number of rows written and does not
\* exceed the requested count when that is 0 or more (it is 0 when the
\* requested count is negative).
C6_PartialResultsWritten ==
  /\ [](pc = "done" =>
          /\ C6_Written
          /\ report.exported <= (IF args.count < 0 THEN 0 ELSE args.count))
  /\ [][rows' # rows => (has_text /\ rows' = Append(rows, row)
                          /\ row.ref = CurrentRef)]_vars
  /\ [](pc = "loop" => <>(pc = "done"))

\* C6 as stated: the reported count never exceeds the requested count.
C6_Original ==
  pc = "done" => (C6_Written /\ report.exported <= args.count)

\* C6 witness: a run that stopped early with rows collected and wrote them.
C6_Witness ==
  /\ pc = "done"
  /\ printed = NoTextMsg
  /\ Len(rows) = 1
  /\ args.count = 2
  /\ Len(csv) = 2

\* C10: the references of the rows are strictly increasing, and a reference
\* advance_reference returns is after the one it was called with.
C10_RowsIncrease ==
  /\ \A i \in 1..Len(rows) : \A j \in (i + 1)..Len(rows) :
       RefLess(rows[i].ref, rows[j].ref)
  /\ (pc = "adv_ret" /\ ret # None) => RefLess(CurrentRef, ret)
  /\ (pc = "adv_ret" /\ rows # <<>>) => rows[Len(rows)].ref = CurrentRef

\* C10 witness: two rows exported, the second in a later chapter.
C10_Witness ==
  /\ Len(rows) = 2
  /\ rows[1].ref[2] < rows[2].ref[2]

\* C10 for advance_reference alone, with any site.
C10_AdvanceMovesOn == Found => RefLess(CurrentRef, ret)

\* The symmetric difference of two sets.
SymDiff(A, B) == {x \in A \cup B : ~(x \in A /\ x \in B)}

\* The unordered pairs of entries of a mapping of n variants.
Pairs(n) == {pr \in SUBSET (1..n) : Cardinality(pr) = 2}

\* The size of the symmetric difference of the word sets of the two entries
\* of pair pr.
PairSize(vs, pr) ==
  LET lo == CHOOSE x \in pr : \A y \in pr : x <= y
      hi == CHOOSE x \in pr : \A y \in pr : y <= x
  IN  Cardinality(SymDiff(WordSet(vs[lo].text), WordSet(vs[hi].text)))

RECURSIVE SumOverPairs(_, _)
SumOverPairs(vs, prs) ==
  IF prs = {} THEN 0
  ELSE LET pr == CHOOSE x \in prs : TRUE
       IN  PairSize(vs, pr) + SumOverPairs(vs, prs \ {pr})

\* min(100, 5 * sum / pairs) to one decimal, in tenths: the tenth within half
\* a tenth of it.
ClaimedScore(vs) ==
  LET sum == SumOverPairs(vs, Pairs(Len(vs)))
      cnt == Cardinality(Pairs(Len(vs)))
  IN  IF 50 * sum >= 1000 * cnt
        THEN 1000
        ELSE CHOOSE s \in ((50 * sum) \div cnt)..((50 * sum) \div cnt + 1) :
               (2 * (s * cnt - 50 * sum) <= cnt) /\ (2 * (50 * sum - s * cnt) <= cnt)

\* C7: the score is 0.0 for fewer than 2 variants, and otherwise
\* min(100, 5 * (sum over the unordered pairs of the symmetric differences of
\* the word sets) / (number of pairs)) to one decimal; it lies in [0, 100].
C7_ScoreFormula ==
  pc = "describe" =>
    /\ contradiction_score =
         (IF Len(variants) < 2 THEN 0 ELSE ClaimedScore(variants))
    /\ contradiction_score >= 0
    /\ contradiction_score <= 1000

\* C7 witness: three variants whose average is not a whole number of words,
\* scored between 0 and 100.
C7_Witness ==
  /\ pc = "describe"
  /\ Len(variants) = 3
  /\ SumOverPairs(variants, Pairs(3)) % 3 = 2
  /\ contradiction_score > 0
  /\ contradiction_score < 1000

\* The clamp is reached: a scaled average above 100 is scored 100.0.
C7_ClampReached ==
  /\ pc = "describe"
  /\ Len(variants) >= 2
  /\ 5 * SumOverPairs(variants, Pairs(Len(variants))) > 100 * Cardinality(Pairs(Len(variants)))
  /\ contradiction_score = 1000

\* The bijections of 1..n.
Perms(n) == {p \in [1..n -> 1..n] : \A x, y \in 1..n : p[x] = p[y] => x = y}

\* The entries of vs in the order p.
Reordered(vs, p) == [k \in 1..Len(vs) |-> vs[p[k]]]

\* C8: every ordering of the entries of the mapping gives the score the
\* mapping got.
C8_OrderIndependent ==
  pc = "describe" =>
    \A p \in Perms(Len(variants)) :
      calculate_contradiction_score(Reordered(variants, p)) = contradiction_score

\* C8 witness: three variants scored, one with no word, the others with
\* different word sets.
C8_Witness ==
  /\ pc = "describe"
  /\ Len(variants) = 3
  /\ WordSet(variants[1].text) # {}
  /\ WordSet(variants[2].text) = {}
  /\ WordSet(variants[3].text) # WordSet(variants[1].text)
  /\ contradiction_score > 0

\* The mapping of the spec's scenario, KJV first.
IsScenario ==
  /\ Len(variants) = 2
  /\ variants[1] = [version |-> "KJV", text |-> ScenarioKJV]
  /\ variants[2] = [version |-> "NIV", text |-> ScenarioNIV]

\* C9 as amended: for the scenario the score is 15.0 and the description is
\* the phrase of the third keyword rule ("god" in the first text, "he" in the
\* second), which is tried before the score bands.
C9_ScenarioDescription ==
  (pc = "described" /\ IsScenario) =>
    /\ contradiction_score = 150
    /\ short_desc = "God manifest vs He who was manifest."

\* C9 as stated: for the scenario the score is 15.0 and the description is the
\* phrase of the band below 20.
C9_Original ==
  (pc = "described" /\ IsScenario) =>
    /\ contradiction_score = 150
    /\ short_desc = "Minor wording variation only."

\* C9 witness: the scenario scored and described.
C9_Witness == pc = "described" /\ IsScenario /\ short_desc # ""
=============================================================================
